---- MODULE Spec2Model ----
(***************************************************************************)
(* Model of rpi/pi.c: the bridge between the host and the pigpiod daemon   *)
(* client library (pigpiod_if2) that sets up, filters and tears down GPIO  *)
(* edge interrupts.                                                        *)
(*                                                                         *)
(* The C functions are stateless; the state they act on lives in the       *)
(* daemon (pin direction, pull bias, the list of registered callbacks) and *)
(* in what the host learns from the integers the functions return (which   *)
(* pin it holds a subscription for, and under which callback id).          *)
(* Every daemon call answers with a status the model draws from a small    *)
(* set: the daemon may accept or reject any call.                          *)
(***************************************************************************)
EXTENDS Integers, Sequences, FiniteSets, TLC

VARIABLES
    mode,       \* daemon: direction of each pin
    pull,       \* daemon: pull-resistor bias of each pin
    cbs,        \* daemon: the live callback registrations, {[id, gpio]}
    nextId,     \* daemon: the id the next registration gets
    state,      \* host: "Unregistered" / "Active" per pin, from the results
    cbid,       \* host: the callback id the last successful setup returned
    last,       \* the last host call: function, pin, result, daemon calls
    clock,      \* daemon: tick of the next notification
    raised,     \* the notifications the daemon generated, in order
    delivered,  \* the invocations of interruptCallback, in order
    handled,    \* the invocations of pigpioInterruptCallback, in order
    threads     \* host threads inside setupInterrupt: the calls issued so far

vars == <<mode, pull, cbs, nextId, state, cbid, last, clock, raised,
          delivered, handled, threads>>

----------------------------------------------------------------------------
(* Bounds of the model *)

\* registrations the daemon hands out before the model stops subscribing
MaxId == 2
\* notifications the daemon generates in one behaviour
MaxNotes == 2
\* notifications the daemon generates while host threads run concurrently
MaxThreadNotes == 1
MaxPinNotes == 1

(* Program constants *)

\* the level pigpiod reports when a watchdog expires (no edge)
WatchdogLevel == 2

Pins == {5, 17}
\* the pin the host of Spec watches
Watched == 17
Levels == {0, 1, WatchdogLevel}
\* the host threads of SpecThreads
Threads == {"a", "b"}
\* non-zero statuses the daemon answers a rejected call with
DaemonErrors == {0 - 1, 0 - 2}
Status == {0} \cup DaemonErrors
\* "no callback id": what the host holds for a pin it has no subscription on
NoId == 0 - 1
\* the largest int; an unsigned above it turns negative when passed as an int
IntMax == 2147483647

----------------------------------------------------------------------------
(* The daemon client library, as pi.c calls it.  d is the daemon's state  *)
(* together with the calls one host call has issued so far.               *)

\* one call to the daemon and the integer it answered
DaemonCall(fn, gpio, arg, ret) ==
    [fn |-> fn, gpio |-> gpio, arg |-> arg, ret |-> ret]

\* set_mode(pi, gpio, mode): status 0 sets the direction
set_mode(d, gpio, newMode, status) ==
    [d EXCEPT !.calls = Append(@, DaemonCall("set_mode", gpio, newMode, status)),
              !.mode = IF status = 0 THEN [@ EXCEPT ![gpio] = newMode] ELSE @]

\* set_pull_up_down(pi, gpio, pud): status 0 sets the bias
set_pull_up_down(d, gpio, pud, status) ==
    [d EXCEPT !.calls = Append(@, DaemonCall("set_pull_up_down", gpio, pud, status)),
              !.pull = IF status = 0 THEN [@ EXCEPT ![gpio] = pud] ELSE @]

\* callback(pi, gpio, EITHER_EDGE, f).  The daemon keeps one registration per
\* pin: with a function, an answer >= 0 is the callback id of a registration
\* that takes the place of whatever the pin had, and a negative answer is a
\* refusal; with NULL, status 0 removes the pin's registration.  A refused
\* call changes nothing.
callback(d, gpio, f, answer) ==
    [d EXCEPT !.calls = Append(@, DaemonCall("callback", gpio, f, answer)),
              !.cbs = IF f = "NULL"
                      THEN IF answer = 0
                           THEN {r \in @ : r.gpio # gpio}
                           ELSE @
                      ELSE IF answer >= 0
                           THEN {r \in @ : r.gpio # gpio}
                                    \cup {[id |-> answer, gpio |-> gpio, f |-> f]}
                           ELSE @]

----------------------------------------------------------------------------
(* pi.c *)

\* unsigned -> int at the call of pigpioInterruptCallback(int, int, uint32_t)
ToInt(u) == IF u <= IntMax THEN u ELSE (u - IntMax) - IntMax - 2

\* the host's exported handler: records what it was called with
pigpioInterruptCallback(log, gpio, level, tick) ==
    Append(log, [gpio |-> gpio, level |-> level, tick |-> tick])

\* a filter that lost its watchdog test
interruptCallback_NoWatchdogTest(log, pi, gpio, level, tick) ==
    pigpioInterruptCallback(log, ToInt(gpio), ToInt(level), tick)

\* a filter that hands the handler the level as pin and the pin as level
interruptCallback_SwapsArguments(log, pi, gpio, level, tick) ==
    IF level = WatchdogLevel
    THEN log
    ELSE pigpioInterruptCallback(log, ToInt(level), ToInt(gpio), tick)

\* void interruptCallback(int pi, unsigned gpio, unsigned level, uint32_t tick)
interruptCallback(log, pi, gpio, level, tick) ==
    IF level = WatchdogLevel
    THEN log
    ELSE pigpioInterruptCallback(log, ToInt(gpio), ToInt(level), tick)

Return(d, result) == [d |-> d, result |-> result]

\* a setup that does not stop when the daemon rejects the pull bias
setupInterrupt_IgnoresPullStatus(d, gpio, a1, a2, a3) ==
    LET d1 == set_mode(d, gpio, "PI_INPUT", a1) IN
    IF a1 # 0 THEN Return(d1, a1) ELSE
    LET d2 == set_pull_up_down(d1, gpio, "PI_PUD_UP", a2) IN
    LET d3 == callback(d2, gpio, "interruptCallback", a3) IN
    Return(d3, a3)

\* a setup that leaves the bias alone
setupInterrupt_NoPull(d, gpio, a1, a2, a3) ==
    LET d1 == set_mode(d, gpio, "PI_INPUT", a1) IN
    IF a1 # 0 THEN Return(d1, a1) ELSE
    LET d3 == callback(d1, gpio, "interruptCallback", a3) IN
    Return(d3, a3)

\* a setup that reports plain success in place of the daemon's answer
setupInterrupt_ReturnsZero(d, gpio, a1, a2, a3) ==
    LET d1 == set_mode(d, gpio, "PI_INPUT", a1) IN
    IF a1 # 0 THEN Return(d1, a1) ELSE
    LET d2 == set_pull_up_down(d1, gpio, "PI_PUD_UP", a2) IN
    IF a2 # 0 THEN Return(d2, a2) ELSE
    LET d3 == callback(d2, gpio, "interruptCallback", a3) IN
    Return(d3, 0)

\* a setup that asks once more when the daemon rejects the mode
setupInterrupt_RetriesMode(d, gpio, a1, a2, a3) ==
    LET d1 == set_mode(d, gpio, "PI_INPUT", a1) IN
    IF a1 # 0 THEN Return(set_mode(d1, gpio, "PI_INPUT", a1), a1) ELSE
    LET d2 == set_pull_up_down(d1, gpio, "PI_PUD_UP", a2) IN
    IF a2 # 0 THEN Return(d2, a2) ELSE
    LET d3 == callback(d2, gpio, "interruptCallback", a3) IN
    Return(d3, a3)

\* a setup whose early return hands back 0 where the status belongs
setupInterrupt_ZeroOnModeError(d, gpio, a1, a2, a3) ==
    LET d1 == set_mode(d, gpio, "PI_INPUT", a1) IN
    IF a1 # 0 THEN Return(d1, 0) ELSE
    LET d2 == set_pull_up_down(d1, gpio, "PI_PUD_UP", a2) IN
    IF a2 # 0 THEN Return(d2, a2) ELSE
    LET d3 == callback(d2, gpio, "interruptCallback", a3) IN
    Return(d3, a3)

\* int setupInterrupt(int pi, int gpio)
setupInterrupt(d, gpio, a1, a2, a3) ==
    LET d1 == set_mode(d, gpio, "PI_INPUT", a1) IN
    IF a1 # 0 THEN Return(d1, a1) ELSE
    LET d2 == set_pull_up_down(d1, gpio, "PI_PUD_UP", a2) IN
    IF a2 # 0 THEN Return(d2, a2) ELSE
    LET d3 == callback(d2, gpio, "interruptCallback", a3) IN
    Return(d3, a3)

\* int setPullUp(int pi, int gpio)
setPullUp(d, gpio, a) ==
    Return(set_pull_up_down(d, gpio, "PI_PUD_UP", a), a)

\* a pull-down that passes the pull-up constant
setPullDown_PassesUp(d, gpio, a) ==
    Return(set_pull_up_down(d, gpio, "PI_PUD_UP", a), a)

\* int setPullDown(int pi, int gpio)
setPullDown(d, gpio, a) ==
    Return(set_pull_up_down(d, gpio, "PI_PUD_DOWN", a), a)

\* int setPullNone(int pi, int gpio)
setPullNone(d, gpio, a) ==
    Return(set_pull_up_down(d, gpio, "PI_PUD_OFF", a), a)

\* a teardown that reports success whatever the daemon answered
teardownInterrupt_ReturnsZero(d, gpio, a) ==
    Return(callback(d, gpio, "NULL", a), 0)

\* a teardown that returns without asking the daemon to cancel
teardownInterrupt_NoCancel(d, gpio, a) ==
    Return(d, 0)

\* a teardown that passes the filter where NULL belongs
teardownInterrupt_PassesFilter(d, gpio, a) ==
    Return(callback(d, gpio, "interruptCallback", a), a)

\* a teardown that also switches the pull resistor off
teardownInterrupt_ResetsPull(d, gpio, a) ==
    LET d1 == callback(d, gpio, "NULL", a) IN
    Return(set_pull_up_down(d1, gpio, "PI_PUD_OFF", 0), a)

\* int teardownInterrupt(int pi, int gpio)
teardownInterrupt(d, gpio, a) ==
    Return(callback(d, gpio, "NULL", a), a)

----------------------------------------------------------------------------
(* The system: the host calling pi.c, and the daemon notifying *)

Daemon == [mode |-> mode, pull |-> pull, cbs |-> cbs, calls |-> <<>>]

\* the ids of the live registrations on a pin
Regs(c, gpio) == {r.id : r \in {x \in c : x.gpio = gpio}}

\* what the pin looked like when a host call started
Pre(gpio) ==
    [state |-> state[gpio], cbid |-> cbid[gpio], mode |-> mode[gpio],
     pull |-> pull[gpio], regs |-> Regs(cbs, gpio)]

\* a thread that is in no call
Idle == [fn |-> "none", gpio |-> 0, calls |-> <<>>, since |-> 0]

NoCall ==
    [fn |-> "none", gpio |-> 0, result |-> 0, calls |-> <<>>,
     pre |-> [state |-> "Unregistered", cbid |-> NoId, mode |-> "unknown",
              pull |-> "unknown", regs |-> {}]]

Init ==
    /\ mode = [p \in Pins |-> "unknown"]
    /\ pull = [p \in Pins |-> "unknown"]
    /\ cbs = {}
    /\ nextId = 0
    /\ state = [p \in Pins |-> "Unregistered"]
    /\ cbid = [p \in Pins |-> NoId]
    /\ last = NoCall
    /\ clock = 0
    /\ raised = <<>>
    /\ delivered = <<>>
    /\ handled = <<>>
    /\ threads = [t \in Threads |-> Idle]

\* the daemon's part of the outcome of a host call
Applied(fn, gpio, out) ==
    /\ mode' = out.d.mode
    /\ pull' = out.d.pull
    /\ cbs' = out.d.cbs
    /\ nextId' = IF \E r \in out.d.cbs : r.id = nextId THEN nextId + 1 ELSE nextId
    /\ last' = [fn |-> fn, gpio |-> gpio, result |-> out.result,
                calls |-> out.d.calls, pre |-> Pre(gpio)]
    /\ UNCHANGED <<clock, raised, delivered, handled, threads>>

\* the daemon's answers to the calls of one setupInterrupt: a rejected call
\* is the last one, so the answers after it are never asked for
SetupAnswers(id) ==
    {<<e, 0, 0>> : e \in DaemonErrors}
        \cup {<<0, e, 0>> : e \in DaemonErrors}
        \cup {<<0, 0, x>> : x \in {id} \cup DaemonErrors}

\* the host calls setupInterrupt; a result >= 0 is the callback id of its
\* subscription
Subscribe(gpio) ==
    /\ nextId < MaxId
    /\ \E a \in SetupAnswers(nextId) :
         LET out == setupInterrupt(Daemon, gpio, a[1], a[2], a[3]) IN
         /\ Applied("setupInterrupt", gpio, out)
         /\ state' = IF out.result >= 0
                     THEN [state EXCEPT ![gpio] = "Active"] ELSE state
         /\ cbid' = IF out.result >= 0
                    THEN [cbid EXCEPT ![gpio] = out.result] ELSE cbid

SetPullUp(gpio) ==
    \E a \in Status :
        /\ Applied("setPullUp", gpio, setPullUp(Daemon, gpio, a))
        /\ UNCHANGED <<state, cbid>>

\* a pull-down that is applied to the watched pin whatever pin was asked for
SetPullDown_OnWatchedPin(gpio) ==
    \E a \in Status :
        /\ Applied("setPullDown", gpio, setPullDown(Daemon, Watched, a))
        /\ UNCHANGED <<state, cbid>>

SetPullDown(gpio) ==
    \E a \in Status :
        /\ Applied("setPullDown", gpio, setPullDown(Daemon, gpio, a))
        /\ UNCHANGED <<state, cbid>>

SetPullNone(gpio) ==
    \E a \in Status :
        /\ Applied("setPullNone", gpio, setPullNone(Daemon, gpio, a))
        /\ UNCHANGED <<state, cbid>>

\* the host calls teardownInterrupt; result 0 ends its subscription
Unsubscribe(gpio) ==
    \E a \in Status :
        LET out == teardownInterrupt(Daemon, gpio, a) IN
        /\ Applied("teardownInterrupt", gpio, out)
        /\ state' = IF out.result = 0
                    THEN [state EXCEPT ![gpio] = "Unregistered"] ELSE state
        /\ cbid' = IF out.result = 0
                   THEN [cbid EXCEPT ![gpio] = NoId] ELSE cbid

\* the registrations of a pin, lowest id first
RECURSIVE InOrder(_)
InOrder(S) ==
    IF S = {} THEN <<>>
    ELSE LET m == CHOOSE x \in S : \A y \in S : x.id <= y.id
         IN <<m>> \o InOrder(S \ {m})

\* the daemon calls each registered function once with the notification
RECURSIVE Dispatch(_, _, _, _, _)
Dispatch(log, regs, gpio, level, tick) ==
    IF regs = <<>> THEN log
    ELSE Dispatch(interruptCallback(log, "pi", gpio, level, tick),
                  Tail(regs), gpio, level, tick)

\* a delivery whose filter cancels the pin's registration on a watchdog
Notify_WatchdogCancels(gpio, level) ==
    /\ Len(raised) < MaxNotes
    /\ LET note == [gpio |-> gpio, level |-> level, tick |-> clock]
           regs == InOrder({r \in cbs : r.gpio = gpio})
       IN /\ raised' = Append(raised, note)
          /\ delivered' = delivered \o [i \in 1..Len(regs) |-> note]
          /\ handled' = Dispatch(handled, regs, gpio, level, clock)
    /\ clock' = clock + 1
    /\ cbs' = IF level = WatchdogLevel
              THEN {r \in cbs : r.gpio # gpio} ELSE cbs
    /\ UNCHANGED <<mode, pull, nextId, state, cbid, last, threads>>

\* a pin changes level, or its watchdog expires: the daemon notifies the
\* functions registered on it
Notify(gpio, level) ==
    /\ Len(raised) < MaxNotes
    /\ LET note == [gpio |-> gpio, level |-> level, tick |-> clock]
           regs == InOrder({r \in cbs : r.gpio = gpio})
       IN /\ raised' = Append(raised, note)
          /\ delivered' = delivered \o [i \in 1..Len(regs) |-> note]
          /\ handled' = Dispatch(handled, regs, gpio, level, clock)
    /\ clock' = clock + 1
    /\ UNCHANGED <<mode, pull, cbs, nextId, state, cbid, last, threads>>

\* one call of the host on pin gpio
HostCall(gpio) ==
    \/ Subscribe(gpio)
    \/ SetPullUp(gpio)
    \/ SetPullDown(gpio)
    \/ SetPullNone(gpio)
    \/ Unsubscribe(gpio)

\* the host works on one pin; the daemon sees edges on every pin
Next ==
    \/ HostCall(Watched)
    \/ \E gpio \in Pins, level \in Levels : Notify(gpio, level)

Spec == Init /\ [][Next]_vars

\* the host works on every pin
NextPins ==
    \/ \E gpio \in Pins : Subscribe(gpio)
    \/ \E gpio \in Pins : SetPullDown(gpio)
    \/ \E gpio \in Pins : Unsubscribe(gpio)
    \/ \E gpio \in Pins, level \in Levels :
           Len(raised) < MaxPinNotes /\ Notify(gpio, level)

SpecPins == Init /\ [][NextPins]_vars

----------------------------------------------------------------------------
(* Concurrent host threads.  setupInterrupt makes three daemon calls and   *)
(* holds no lock: another thread, or the daemon's delivery context, can    *)
(* run between any two of them.  The other functions make one call each.   *)

\* a setup that registers before it configures the pin
setupInterruptCall_RegistersFirst(k) ==
    CASE k = 1 -> [fn |-> "callback", arg |-> "interruptCallback"]
      [] k = 2 -> [fn |-> "set_mode", arg |-> "PI_INPUT"]
      [] k = 3 -> [fn |-> "set_pull_up_down", arg |-> "PI_PUD_UP"]

\* the k-th daemon call of setupInterrupt
setupInterruptCall(k) ==
    CASE k = 1 -> [fn |-> "set_mode", arg |-> "PI_INPUT"]
      [] k = 2 -> [fn |-> "set_pull_up_down", arg |-> "PI_PUD_UP"]
      [] k = 3 -> [fn |-> "callback", arg |-> "interruptCallback"]

\* the daemon carries out the call c for pin gpio and answers a
DoCall(d, c, gpio, a) ==
    CASE c.fn = "set_mode" -> set_mode(d, gpio, c.arg, a)
      [] c.fn = "set_pull_up_down" -> set_pull_up_down(d, gpio, c.arg, a)
      [] c.fn = "callback" -> callback(d, gpio, c.arg, a)

\* what the daemon may answer to the call c
Answers(c, id) ==
    IF c.fn = "callback" /\ c.arg # "NULL"
    THEN {id} \cup DaemonErrors
    ELSE Status

\* the threads inside setupInterrupt
InSetup == {t \in Threads : threads[t].fn = "setupInterrupt"}

\* thread t makes the next daemon call of its setupInterrupt(pi, gpio): the
\* first one when it enters the function; it returns after the third call,
\* or at once when the daemon answers a configuration call with non-zero
SetupStep(t, gpio) ==
    LET th == threads[t]
        k == Len(th.calls) + 1
        c == setupInterruptCall(k)
    IN /\ \/ th.fn = "none" /\ nextId + Cardinality(InSetup) < MaxId
          \/ th.fn = "setupInterrupt" /\ th.gpio = gpio
       /\ \E a \in Answers(c, nextId) :
            LET d1 == DoCall([mode |-> mode, pull |-> pull, cbs |-> cbs,
                              calls |-> th.calls], c, gpio, a)
                returns == k = 3 \/ (c.fn # "callback" /\ a # 0)
            IN /\ mode' = d1.mode
               /\ pull' = d1.pull
               /\ cbs' = d1.cbs
               /\ nextId' = IF \E r \in d1.cbs : r.id = nextId
                             THEN nextId + 1 ELSE nextId
               /\ threads' = [threads EXCEPT ![t] =
                      IF returns THEN Idle
                      ELSE [fn |-> "setupInterrupt", gpio |-> gpio,
                            calls |-> d1.calls,
                            since |-> IF k = 1 THEN clock ELSE th.since]]
               /\ state' = IF returns /\ a >= 0
                           THEN [state EXCEPT ![gpio] = "Active"] ELSE state
               /\ cbid' = IF returns /\ a >= 0
                          THEN [cbid EXCEPT ![gpio] = a] ELSE cbid
       /\ UNCHANGED <<last, clock, raised, delivered, handled>>

\* threads of the host inside setupInterrupt, other host calls, and the
\* daemon's delivery context, all on the watched pin
NextThreads ==
    \/ \E t \in Threads : SetupStep(t, Watched)
    \/ SetPullDown(Watched)
    \/ Unsubscribe(Watched)
    \/ \E level \in Levels :
           Len(raised) < MaxThreadNotes /\ Notify(Watched, level)

SpecThreads == Init /\ [][NextThreads]_vars

----------------------------------------------------------------------------
TypeOK ==
    /\ mode \in [Pins -> {"unknown", "PI_INPUT"}]
    /\ pull \in [Pins -> {"unknown", "PI_PUD_UP", "PI_PUD_DOWN", "PI_PUD_OFF"}]
    /\ nextId \in 0..MaxId
    /\ \A r \in cbs : r.id \in 0..(nextId - 1) /\ r.gpio \in Pins
    /\ state \in [Pins -> {"Unregistered", "Active"}]
    /\ Len(raised) <= MaxNotes

----------------------------------------------------------------------------
(* Vocabulary of the claims *)

SetPullFns == {"setPullUp", "setPullDown", "setPullNone"}

\* the bias each SetPull function asks for
Requested(fn) ==
    CASE fn = "setPullUp" -> "PI_PUD_UP"
      [] fn = "setPullDown" -> "PI_PUD_DOWN"
      [] fn = "setPullNone" -> "PI_PUD_OFF"

\* the names of the daemon calls the last host call issued, in order
CallNames == [i \in 1..Len(last.calls) |-> last.calls[i].fn]

\* the edges among a sequence of notifications: what a handler is to see
RECURSIVE Edges(_)
Edges(notes) ==
    IF notes = <<>> THEN <<>>
    ELSE IF Head(notes).level \in {0, 1}
         THEN <<Head(notes)>> \o Edges(Tail(notes))
         ELSE Edges(Tail(notes))

\* the subscription of the pin of the last call is as it was before the call
SubscriptionKept ==
    /\ state[last.gpio] = last.pre.state
    /\ cbid[last.gpio] = last.pre.cbid
    /\ Regs(cbs, last.gpio) = last.pre.regs

----------------------------------------------------------------------------
\* C1: the handler has been invoked exactly once for each level-0 or level-1
\* notification the filter received, in arrival order and with the same
\* fields, and never for a level-2 (watchdog) notification.
C1_HandlerSeesExactlyTheEdges == handled = Edges(delivered)

\* a watchdog notification and an edge were both delivered to the filter
C1_Witness ==
    /\ \E i \in 1..Len(delivered) : delivered[i].level = WatchdogLevel
    /\ \E i \in 1..Len(delivered) : delivered[i].level \in {0, 1}
    /\ Len(handled) >= 1

----------------------------------------------------------------------------
\* C2: the handler is invoked for a pin only while the host holds an Active
\* subscription on it: every step that invokes the handler does so for a pin
\* whose state is Active, so none is invoked after an Unsubscribe that
\* returned success (until a later Subscribe succeeds) nor for a pin whose
\* Subscribe never succeeded.
C2_HandlerOnlyWhileActive ==
    [][\A i \in (Len(handled) + 1)..Len(handled') :
           state[handled'[i].gpio] = "Active"]_vars

\* an edge on the watched pin was handled, the host unsubscribed with
\* success, and a later edge on the same pin reached no handler
C2_Witness ==
    /\ last.fn = "teardownInterrupt"
    /\ last.result = 0
    /\ last.pre.state = "Active"
    /\ state[Watched] = "Unregistered"
    /\ Len(raised) >= 2
    /\ raised[Len(raised)].gpio = Watched
    /\ raised[Len(raised)].level \in {0, 1}
    /\ Len(handled) >= 1
    /\ \A i \in 1..Len(handled) : handled[i].tick < raised[Len(raised)].tick

----------------------------------------------------------------------------
\* C3: Subscribe on a pin whose subscription is already Active fails and
\* issues no daemon call at all; the registrations, the subscription and its
\* callback id stay as they were.
C3_AlreadySubscribedIssuesNoCall ==
    (last.fn = "setupInterrupt" /\ last.pre.state = "Active")
        => /\ last.result < 0
           /\ last.calls = <<>>
           /\ SubscriptionKept

----------------------------------------------------------------------------
\* C4: a successful Subscribe followed by an Unsubscribe that the daemon
\* carries out leaves the pin Unregistered with no registration at the
\* daemon, so that a Subscribe the daemon accepts succeeds again and is then
\* the pin's only registration; this holds in every round.
C4_SubscribeUnsubscribeRoundTrip ==
    (/\ last.fn = "teardownInterrupt"
     /\ last.result = 0
     /\ last.pre.state = "Active")
        => /\ state[last.gpio] = "Unregistered"
           /\ cbid[last.gpio] = NoId
           /\ Regs(cbs, last.gpio) = {}
           /\ LET again == setupInterrupt(Daemon, last.gpio, 0, 0, nextId) IN
              /\ again.result = nextId
              /\ Regs(again.d.cbs, last.gpio) = {nextId}

\* the second round: the pin was subscribed, unsubscribed, subscribed again
\* under a new callback id and unsubscribed again
C4_Witness ==
    /\ last.fn = "teardownInterrupt"
    /\ last.result = 0
    /\ last.pre.state = "Active"
    /\ last.pre.cbid = 1
    /\ last.pre.regs = {1}
    /\ state[last.gpio] = "Unregistered"

----------------------------------------------------------------------------
\* C5: Subscribe is fail-fast: a non-zero status of the mode-set call is
\* returned with neither the pull-set nor the registration call issued; a
\* non-zero status of the pull-set call is returned with no registration call
\* issued.  Either way the call leaves no subscription behind: the
\* registrations and the subscription are as before, so a pin that was
\* Unregistered is Unregistered and has no callback id.
C5_SubscribeFailFast ==
    (last.fn = "setupInterrupt" /\ Len(last.calls) >= 1)
        => /\ last.calls[1].fn = "set_mode"
           /\ last.calls[1].ret # 0
                => /\ Len(last.calls) = 1
                   /\ last.result = last.calls[1].ret
                   /\ SubscriptionKept
           /\ (Len(last.calls) >= 2 /\ last.calls[2].ret # 0)
                => /\ CallNames = <<"set_mode", "set_pull_up_down">>
                   /\ last.result = last.calls[2].ret
                   /\ SubscriptionKept
           /\ (last.result < 0 /\ last.pre.state = "Unregistered")
                => /\ state[last.gpio] = "Unregistered"
                   /\ cbid[last.gpio] = NoId
                   /\ Regs(cbs, last.gpio) = {}

\* the daemon accepted the mode and rejected the pull bias on a pin that
\* had no subscription
C5_Witness ==
    /\ last.fn = "setupInterrupt"
    /\ Len(last.calls) = 2
    /\ last.calls[1].ret = 0
    /\ last.calls[2].ret # 0
    /\ last.pre.state = "Unregistered"
    /\ mode[last.gpio] = "PI_INPUT"

----------------------------------------------------------------------------
\* C6 as stated: Unsubscribe on a subscription that is already Unregistered
\* returns success, leaves the state Unregistered and issues no cancellation
\* call to the daemon.
C6_UnsubscribeTwiceIssuesNoCall ==
    (last.fn = "teardownInterrupt" /\ last.pre.state = "Unregistered")
        => /\ last.result = 0
           /\ state[last.gpio] = "Unregistered"
           /\ last.calls = <<>>

\* C6 as amended: Unsubscribe on a subscription that is already Unregistered
\* leaves the state Unregistered, with no callback id and no registration; it
\* issues one cancellation call to the daemon, as every Unsubscribe does, and
\* returns the status the daemon answers (success when that is 0).
C6_UnsubscribeTwiceKeepsUnregistered ==
    (last.fn = "teardownInterrupt" /\ last.pre.state = "Unregistered")
        => /\ state[last.gpio] = "Unregistered"
           /\ cbid[last.gpio] = NoId
           /\ Regs(cbs, last.gpio) = {}
           /\ Len(last.calls) = 1
           /\ last.calls[1].fn = "callback"
           /\ last.calls[1].arg = "NULL"
           /\ last.calls[1].gpio = last.gpio
           /\ last.result = last.calls[1].ret

\* a second Unsubscribe: the pin had been subscribed and unsubscribed, and
\* the daemon answered 0 to the repeated cancellation
C6_Witness ==
    /\ last.fn = "teardownInterrupt"
    /\ last.pre.state = "Unregistered"
    /\ last.result = 0
    /\ nextId >= 1
    /\ Len(last.calls) = 1

----------------------------------------------------------------------------
----------------------------------------------------------------------------
\* C8: a SetPull on a pin with an Active subscription issues the pull-set
\* call with the requested bias and nothing else, returns the daemon's
\* status, sets the bias when the daemon accepts, and leaves the subscription
\* Active with its callback id and registration unchanged.
C8_SetPullKeepsSubscription ==
    (last.fn \in SetPullFns /\ last.pre.state = "Active")
        => /\ Len(last.calls) = 1
           /\ last.calls[1].fn = "set_pull_up_down"
           /\ last.calls[1].gpio = last.gpio
           /\ last.calls[1].arg = Requested(last.fn)
           /\ last.result = last.calls[1].ret
           /\ last.result = 0 => pull[last.gpio] = Requested(last.fn)
           /\ last.result # 0 => pull[last.gpio] = last.pre.pull
           /\ state[last.gpio] = "Active"
           /\ SubscriptionKept

\* pull-down accepted on a pin with an Active subscription, whose bias the
\* subscription had set to pull-up
C8_Witness ==
    /\ last.fn = "setPullDown"
    /\ last.pre.state = "Active"
    /\ last.pre.pull = "PI_PUD_UP"
    /\ last.result = 0
    /\ pull[last.gpio] = "PI_PUD_DOWN"
    /\ Regs(cbs, last.gpio) # {}

----------------------------------------------------------------------------
\* C9 as stated: after a successful Subscribe the bias is Up when the caller
\* had set no other mode, and the mode the caller had set (Down or None)
\* when there was one.
C9_SubscribeKeepsCallersPull ==
    (last.fn = "setupInterrupt" /\ last.result >= 0)
        => pull[last.gpio] =
               IF last.pre.pull \in {"PI_PUD_DOWN", "PI_PUD_OFF"}
               THEN last.pre.pull
               ELSE "PI_PUD_UP"

\* C9 as amended: Subscribe always applies pull-up: after a successful
\* Subscribe the bias is Up, whether or not the caller had set a mode before;
\* a Down or None set earlier is overwritten.
C9_SubscribeAlwaysPullsUp ==
    (last.fn = "setupInterrupt" /\ last.result >= 0)
        => /\ pull[last.gpio] = "PI_PUD_UP"
           /\ \E i \in 1..Len(last.calls) :
                  /\ last.calls[i].fn = "set_pull_up_down"
                  /\ last.calls[i].arg = "PI_PUD_UP"
                  /\ last.calls[i].ret = 0

\* a successful Subscribe on a pin the caller had set to pull-down
C9_Witness ==
    /\ last.fn = "setupInterrupt"
    /\ last.result >= 0
    /\ last.pre.pull = "PI_PUD_DOWN"
    /\ pull[last.gpio] = "PI_PUD_UP"

----------------------------------------------------------------------------
\* C10: Unsubscribe issues no mode-set and no pull-set call: the direction
\* and the bias of the pin after it are what they were before it, whether
\* the cancellation succeeded or failed.
C10_UnsubscribeKeepsPinConfiguration ==
    last.fn = "teardownInterrupt"
        => /\ mode[last.gpio] = last.pre.mode
           /\ pull[last.gpio] = last.pre.pull
           /\ \A i \in 1..Len(last.calls) :
                  last.calls[i].fn \notin {"set_mode", "set_pull_up_down"}

\* a cancellation the daemon rejected, on a subscribed pin the caller had
\* set to pull-down
C10_Witness ==
    /\ last.fn = "teardownInterrupt"
    /\ last.result # 0
    /\ last.pre.state = "Active"
    /\ mode[last.gpio] = "PI_INPUT"
    /\ pull[last.gpio] = "PI_PUD_DOWN"

----------------------------------------------------------------------------
\* how often the last host call issued the daemon call fn
Issued(fn) == Cardinality({i \in 1..Len(last.calls) : last.calls[i].fn = fn})

\* C11: when both configuration calls were accepted, the registration call
\* alone decides Subscribe: its answer is the result; an answer >= 0 is the
\* callback id the host now holds, on an Active subscription whose
\* registration the daemon has; a negative answer leaves the subscription as
\* it was (Unregistered, with no callback id, on a pin that had none).
C11_RegistrationDecidesSubscribe ==
    (/\ last.fn = "setupInterrupt"
     /\ Len(last.calls) >= 2
     /\ last.calls[1].ret = 0
     /\ last.calls[2].ret = 0)
        => /\ Len(last.calls) = 3
           /\ last.calls[3].fn = "callback"
           /\ last.calls[3].arg = "interruptCallback"
           /\ last.result = last.calls[3].ret
           /\ last.calls[3].ret >= 0
                => /\ state[last.gpio] = "Active"
                   /\ cbid[last.gpio] = last.calls[3].ret
                   /\ Regs(cbs, last.gpio) = {last.calls[3].ret}
           /\ last.calls[3].ret < 0
                => /\ SubscriptionKept
                   /\ last.pre.state = "Unregistered"
                        => /\ state[last.gpio] = "Unregistered"
                           /\ cbid[last.gpio] = NoId
                           /\ Regs(cbs, last.gpio) = {}

\* the daemon accepted both configuration calls and refused the
\* registration, on a pin without a subscription
C11_Witness ==
    /\ last.fn = "setupInterrupt"
    /\ Len(last.calls) = 3
    /\ last.calls[3].ret < 0
    /\ last.result = last.calls[3].ret
    /\ last.pre.state = "Unregistered"
    /\ state[last.gpio] = "Unregistered"
    /\ pull[last.gpio] = "PI_PUD_UP"

----------------------------------------------------------------------------
\* the daemon refused the call c
Rejected(c) ==
    IF c.fn = "callback" /\ c.arg # "NULL" THEN c.ret < 0 ELSE c.ret # 0

\* C14: no host call retries a daemon call: one Subscribe issues each of
\* mode-set, pull-set and registration at most once, one SetPull issues the
\* pull-set exactly once, one Unsubscribe issues the cancellation at most
\* once; a call the daemon refuses is the last one issued and its status is
\* the result, code unchanged.  Subscribe on a pin that is already an input
\* issues the mode-set once more and goes on when the daemon accepts it.
C14_NoRetrySameCode ==
    /\ last.fn = "setupInterrupt"
         => /\ Issued("set_mode") <= 1
            /\ Issued("set_pull_up_down") <= 1
            /\ Issued("callback") <= 1
    /\ last.fn \in SetPullFns
         => Issued("set_pull_up_down") = 1 /\ Len(last.calls) = 1
    /\ last.fn = "teardownInterrupt"
         => Issued("callback") <= 1 /\ Len(last.calls) <= 1
    /\ \A i \in 1..Len(last.calls) :
           Rejected(last.calls[i])
               => i = Len(last.calls) /\ last.result = last.calls[i].ret
    /\ (/\ last.fn = "setupInterrupt"
        /\ last.pre.mode = "PI_INPUT"
        /\ last.calls[1].ret = 0)
         => /\ Issued("set_mode") = 1
            /\ mode[last.gpio] = "PI_INPUT"
            /\ Len(last.calls) >= 2

\* a Subscribe on a pin that was an input already: the mode-set was issued
\* again and accepted, and the status -2 of the refused pull-set came back
C14_Witness ==
    /\ last.fn = "setupInterrupt"
    /\ last.pre.mode = "PI_INPUT"
    /\ Len(last.calls) = 2
    /\ last.calls[1].ret = 0
    /\ last.calls[2].ret = 0 - 2
    /\ last.result = 0 - 2

----------------------------------------------------------------------------
\* C15: the host's subscription on a pin becomes Active only by a Subscribe
\* whose registration call the daemon answered with a callback id, and stops
\* being Active only by an Unsubscribe that issued the cancellation call to
\* the daemon; SetPull and notifications never move it.
C15_LifecycleOnlyThroughDaemon ==
    [][\A gpio \in Pins :
        /\ (state[gpio] # "Active" /\ state'[gpio] = "Active")
             => /\ last'.fn = "setupInterrupt"
                /\ last'.gpio = gpio
                /\ Len(last'.calls) = 3
                /\ last'.calls[3].fn = "callback"
                /\ last'.calls[3].ret >= 0
                /\ last'.calls[3].ret \in Regs(cbs', gpio)
        /\ (state[gpio] = "Active" /\ state'[gpio] # "Active")
             => /\ last'.fn = "teardownInterrupt"
                /\ last'.gpio = gpio
                /\ \E i \in 1..Len(last'.calls) :
                       /\ last'.calls[i].fn = "callback"
                       /\ last'.calls[i].arg = "NULL"
                       /\ last'.calls[i].gpio = gpio
                       /\ last'.calls[i].ret = 0
                /\ Regs(cbs', gpio) = {}]_vars

\* a full cycle: the pin is Unregistered again after a subscription whose
\* edge the handler saw
C15_Witness ==
    /\ last.fn = "teardownInterrupt"
    /\ last.pre.state = "Active"
    /\ state[last.gpio] = "Unregistered"
    /\ \E i \in 1..Len(handled) : handled[i].gpio = last.gpio

----------------------------------------------------------------------------
\* C19: with configuration calls answering 0 or a negative code and the
\* registration answering a callback id >= 0 or a negative code, the result
\* of setupInterrupt is >= 0 exactly when the registration call was issued
\* and answered with an id (0 included), which the daemon then has
\* registered; it is negative exactly when the call created no registration,
\* so that a pin without one before the call has none after it.
C19_ResultTellsRegistration ==
    last.fn = "setupInterrupt"
        => LET registered ==
                   /\ Len(last.calls) = 3
                   /\ last.calls[3].fn = "callback"
                   /\ last.calls[3].ret >= 0
           IN /\ last.result >= 0 <=> registered
              /\ last.result < 0 <=> ~registered
              /\ registered => Regs(cbs, last.gpio) = {last.result}
              /\ ~registered => Regs(cbs, last.gpio) = last.pre.regs
              /\ (~registered /\ last.pre.state = "Unregistered")
                   => Regs(cbs, last.gpio) = {}

\* callback id 0: a successful Subscribe whose result is 0
C19_Witness ==
    /\ last.fn = "setupInterrupt"
    /\ last.result = 0
    /\ Len(last.calls) = 3
    /\ Regs(cbs, last.gpio) = {0}
    /\ state[last.gpio] = "Active"

----------------------------------------------------------------------------
\* the threads that have made a daemon call of a Subscribe on the pin and
\* have not returned
InFlight(gpio) == {t \in InSetup : threads[t].gpio = gpio}

\* C12: for each pin at most one Subscribe or Unsubscribe is in flight at any
\* time: under concurrent host calls no two of them are both between their
\* first daemon call and their return (which is what would keep a second
\* registration from being issued for the pin).
C12_OneInFlightPerPin ==
    \A gpio \in Pins : Cardinality(InFlight(gpio)) <= 1

----------------------------------------------------------------------------
\* the steps of a Subscribe in flight: its calls so far, all accepted
ConfiguredSoFar(th) ==
    /\ Len(th.calls) \in {1, 2}
    /\ \A i \in 1..Len(th.calls) :
           /\ th.calls[i].fn = <<"set_mode", "set_pull_up_down">>[i]
           /\ th.calls[i].arg = <<"PI_INPUT", "PI_PUD_UP">>[i]
           /\ th.calls[i].gpio = th.gpio
           /\ th.calls[i].ret = 0

\* C16: Subscribe issues mode-set(input), pull-set and registration in that
\* order, each later call only after the earlier one returned 0: a thread
\* inside setupInterrupt has issued an accepted mode-set, or that and an
\* accepted pull-set, and a registration is added only by a thread that has
\* both behind it.  So under every interleaving with other threads and with
\* the delivery context the handler is invoked for a pin only when the pin
\* is an input and has a pull bias applied.
C16_ConfiguredBeforeDispatch ==
    [][/\ \A t \in Threads :
              threads'[t].fn # "none" => ConfiguredSoFar(threads'[t])
       /\ \A gpio \in Pins :
              ~(Regs(cbs', gpio) \subseteq Regs(cbs, gpio))
                  => \E t \in Threads :
                         /\ threads[t].gpio = gpio
                         /\ ConfiguredSoFar(threads[t])
                         /\ Len(threads[t].calls) = 2
                         /\ threads'[t] = Idle
       /\ \A i \in (Len(handled) + 1)..Len(handled') :
              /\ mode[handled'[i].gpio] = "PI_INPUT"
              /\ pull[handled'[i].gpio]
                     \in {"PI_PUD_UP", "PI_PUD_DOWN", "PI_PUD_OFF"}]_vars

\* a thread has set the mode of the pin and not yet its bias; an edge of the
\* pin came in meanwhile and reached no handler
C16_Witness ==
    \E t \in Threads :
        /\ threads[t].fn = "setupInterrupt"
        /\ Len(threads[t].calls) = 1
        /\ pull[threads[t].gpio] = "unknown"
        /\ Len(raised) >= 1
        /\ raised[Len(raised)].gpio = threads[t].gpio
        /\ raised[Len(raised)].level \in {0, 1}
        /\ raised[Len(raised)].tick >= threads[t].since
        /\ handled = <<>>

----------------------------------------------------------------------------
\* C18: the dispatch filter has no side effect on the lifecycle: a step in
\* which the daemon delivers a notification (level 0, 1 or 2), also one that
\* falls between the daemon calls of a Subscribe on the same pin, changes no
\* subscription state, callback id, registration, direction or bias, and
\* issues no daemon call.
C18_DispatchChangesNoLifecycle ==
    [][raised' # raised
           => UNCHANGED <<mode, pull, cbs, nextId, state, cbid, last,
                          threads>>]_vars

\* an edge was handled while a thread was between the daemon calls of a
\* Subscribe on the same pin, which still had its earlier registration
C18_Witness ==
    \E t \in Threads :
        /\ threads[t].fn = "setupInterrupt"
        /\ Len(delivered) >= 1
        /\ delivered[Len(delivered)].gpio = threads[t].gpio
        /\ delivered[Len(delivered)].tick >= threads[t].since
        /\ Len(handled) >= 1
        /\ state[threads[t].gpio] = "Active"

----------------------------------------------------------------------------
\* the notification of a delivery step, and the handler invocations it made
Raised == raised'[Len(raised')]
Invoked == SubSeq(handled', Len(handled) + 1, Len(handled'))

\* C13: every handler invocation corresponds to one raw notification and
\* carries it unchanged: a notification (pin p, level l, tick t) with l in
\* {0, 1} invokes the handler once per registration of pin p, with the event
\* (p, l, t) and never with another pin; a notification of level 2 invokes
\* none, so every event a handler receives has level 0 or 1.
C13_EventCarriesNotification ==
    [][raised' # raised
           => /\ \A i \in 1..Len(Invoked) :
                     /\ Invoked[i] = [gpio |-> Raised.gpio,
                                      level |-> Raised.level,
                                      tick |-> Raised.tick]
                     /\ Invoked[i].level \in {0, 1}
              /\ Len(Invoked) = IF Raised.level \in {0, 1}
                                THEN Cardinality(Regs(cbs, Raised.gpio))
                                ELSE 0]_vars

\* both pins have an Active subscription and an edge of pin 5 was handled
\* once, as an event of pin 5
C13_Witness ==
    /\ \A gpio \in Pins : state[gpio] = "Active" /\ Regs(cbs, gpio) # {}
    /\ Len(raised) = 1
    /\ raised[1].gpio = 5
    /\ raised[1].level \in {0, 1}
    /\ handled = <<[gpio |-> 5, level |-> raised[1].level,
                    tick |-> raised[1].tick]>>

----------------------------------------------------------------------------
\* C17: operations on one pin do not affect another: a host call on pin p
\* makes its daemon calls on p and leaves the subscription state, callback
\* id, registration, direction and bias of every pin q # p unchanged, and a
\* notification for p, discarded or dispatched, invokes no handler for q.
C17_OtherPinsUntouched ==
    [][/\ raised' = raised
           => /\ \A i \in 1..Len(last'.calls) :
                     last'.calls[i].gpio = last'.gpio
              /\ \A q \in Pins \ {last'.gpio} :
                     /\ state'[q] = state[q]
                     /\ cbid'[q] = cbid[q]
                     /\ mode'[q] = mode[q]
                     /\ pull'[q] = pull[q]
                     /\ Regs(cbs', q) = Regs(cbs, q)
       /\ raised' # raised
           => /\ \A i \in 1..Len(Invoked) : Invoked[i].gpio = Raised.gpio
              /\ UNCHANGED <<state, cbid, mode, pull, cbs>>]_vars

\* with both pins subscribed and an edge of pin 17 handled, pull-down was
\* accepted on pin 5; pin 17 is still Active, input and pulled up
C17_Witness ==
    /\ last.fn = "setPullDown"
    /\ last.gpio = 5
    /\ last.result = 0
    /\ last.pre.state = "Active"
    /\ pull[5] = "PI_PUD_DOWN"
    /\ state[17] = "Active"
    /\ mode[17] = "PI_INPUT"
    /\ pull[17] = "PI_PUD_UP"
    /\ Regs(cbs, 17) # {}
    /\ Len(handled) = 1
    /\ handled[1].gpio = 17

====
